---- MODULE Spec2Model ----
(***************************************************************************)
(* ResizableArray<T, R>: the hierarchical block-counter resizable array of *)
(* include/rarray.h and include/rarray_impl.tpp, with T = int.             *)
(*                                                                         *)
(* A container is a record of the five data members N_, B_, levels_, n_,  *)
(* n0_.  A pointer member that is nullptr is the empty tuple NULLPTR.  A   *)
(* level spine (DynamicArray) is a record [data, size] whose capacity is  *)
(* Len(data); a spine slot is a record [st, data] with st "null" for a     *)
(* nullptr slot, "live" for an owned DataBlock (capacity Len(data)) and    *)
(* "freed" for a pointer whose block has been deleted.                     *)
(*                                                                         *)
(* Every member function is an operator on an execution context            *)
(* x = [c, exc, fuel, lost, rebuilds, trips, seen]: c the container, exc    *)
(* the exception in flight ("none" while the call runs normally), fuel the *)
(* number of allocations that still succeed (NoFail: all of them), lost    *)
(* the number of heap objects no pointer refers to any more, rebuilds the  *)
(* number of calls of rebuild and trips the number of iterations of the    *)
(* loops of combineBlocks and splitBlocks made so far, seen what the call  *)
(* has passed: a point with a level of more than 2B blocks ("over"), with  *)
(* a spine of capacity below 2B ("under"; "under_held" if a level held a   *)
(* block then), a push_back that had to reallocate the spine ("grown").    *)
(* item is what the const T& parameter of grow is bound to: an object       *)
(* outside the container (ByValue), or the place of an element of the      *)
(* container itself, with exc "UB" once the block of that place has been   *)
(* deleted.  A statement is skipped once an exception is in flight, so a   *)
(* call's result is the state the exception leaves behind.  "UB" marks     *)
(* undefined behaviour.                                                    *)
(***************************************************************************)
EXTENDS Integers, Sequences, FiniteSets, TLC

\* static constexpr size_t r_ = R (rarray.h:168): the template argument R the
\* program instantiates ResizableArray<T, R> with; it never changes
VARIABLE r_
\* template parameter R (rarray.h:11)
R == r_
\* its default, which the tests instantiate (rarray.h:11, test_basic.cpp:8)
DefaultR == 3
\* an instantiation with one level more
DeepR == DefaultR + 1
\* static constexpr size_t INITIAL_B (rarray.h:190)
INITIAL_B == 4
\* largest length a container is grown to by the model's operations
MaxN == 65
\* the same for the instantiation with R = DeepR
MaxDeepN == 257
\* an allocation failure is injected after 0..MaxFuel successful allocations
MaxFuel == 3
\* SpecCM keeps each container near empty (at most LowN elements) or near
\* the rebuild threshold INITIAL_B^R (at least HighN elements)
LowN == 9
HighN == 63

\* size_t is 64 bits wide; the model's integers are 32 bits wide.  Every
\* product the code forms stays below 2^31 for the B the model reaches
\* (power squares the base at most to B^4), so products are exact; the one
\* place a size_t can wrap is a decrement of 0, whose result (2^64 - 1) is
\* represented by SIZE_MAX, a value above every count and capacity.
SIZE_MAX == 2^30
Dec(v) == IF v = 0 THEN SIZE_MAX ELSE v - 1

\* the content of a slot of a freshly allocated T[cap] (int: indeterminate)
Indeterminate == 0

NULLPTR == <<>>
NoFail == 0 - 1

Cids == {1, 2}

\* ---------------------------------------------------------------- contexts
\* the argument of grow refers to an object that is not part of the container
ByValue == [exc |-> "value", lvl |-> 0, b |-> 0, off |-> 0]
Ctx(c) == [c |-> c, exc |-> "none", fuel |-> NoFail, lost |-> 0,
           rebuilds |-> 0, trips |-> 0, seen |-> {}, item |-> ByValue]
\* the call on c in which the first fuel allocations succeed and the next fails
Failing(c, fuel) == [Ctx(c) EXCEPT !.fuel = fuel]
Throw(x, e) == IF x.exc # "none" THEN x ELSE [x EXCEPT !.exc = e]
Running(x) == x.exc = "none"
SetC(x, c) == [x EXCEPT !.c = c]
\* the call has passed a point of the given kind
Seen(x, what) == [x EXCEPT !.seen = @ \cup {what}]
\* delete src for the first B blocks of level lvl, then the shift by B
\* (lines 270-283): a reference into one of those blocks dangles, a
\* reference into a later block finds it B slots lower
Released(x, lvl, B) ==
    IF x.item.exc # "none" \/ x.item.lvl # lvl THEN x
    ELSE IF x.item.b < B THEN [x EXCEPT !.item.exc = "UB"]
    ELSE [x EXCEPT !.item.b = @ - B]
\* cleanupLevels() has deleted every block: a reference to an element dangles
Torn(x) == IF x.item.exc = "none" THEN [x EXCEPT !.item.exc = "UB"] ELSE x
\* one more iteration of a loop of combineBlocks or splitBlocks entered
Trip(x) == [x EXCEPT !.trips = @ + 1]
\* one more call of rebuild entered
Entered(x) == [x EXCEPT !.rebuilds = @ + 1]
\* an exception leaves the scope of the only pointers to count heap objects
Leak(x, count) == IF Running(x) THEN x ELSE [x EXCEPT !.lost = @ + count]

\* one allocation (operator new): fails with std::bad_alloc when fuel is spent
Alloc(x) ==
    IF ~Running(x) THEN x
    ELSE IF x.fuel = 0 THEN Throw(x, "bad_alloc")
    ELSE IF x.fuel > 0 THEN [x EXCEPT !.fuel = @ - 1]
    ELSE x

\* ---------------------------------------------------------------- DataBlock
NullBlock == [st |-> "null", data |-> <<>>]
FreedBlock == [st |-> "freed", data |-> <<>>]
\* DataBlock(cap): new T[cap]
DataBlock(cap) == [st |-> "live", data |-> [p \in 1..cap |-> Indeterminate]]
BlockOf(seq) == [st |-> "live", data |-> seq]

\* ------------------------------------------------------------- DynamicArray
DynamicArray == [data |-> <<>>, size |-> 0]
Capacity(d) == Len(d.data)

Level(x, lvl) == x.c.levels_[lvl]
SetLevel(x, lvl, d) == [x EXCEPT !.c.levels_[lvl] = d]

\* DynamicArray::reserve
reserve(x, lvl, newCap) ==
    IF ~Running(x) THEN x
    ELSE LET d == Level(x, lvl) IN
         IF newCap <= Capacity(d) THEN x
         ELSE LET y == Alloc(x) IN
              IF ~Running(y) THEN y
              ELSE SetLevel(y, lvl,
                     [data |-> [i \in 1..newCap |->
                                  IF i <= d.size THEN d.data[i] ELSE NullBlock],
                      size |-> d.size])

\* a point of a call: the levels 1..R-1 are compared with 2B
Point(x) ==
    IF ~Running(x) \/ x.c.levels_ = NULLPTR THEN x
    ELSE [x EXCEPT !.seen =
            @ \cup (IF \E k \in 1..(R - 1) : x.c.levels_[k].size > 2 * x.c.B_
                    THEN {"over"} ELSE {})
              \cup (IF \E k \in 1..(R - 1) : Capacity(x.c.levels_[k]) < 2 * x.c.B_
                    THEN {"under"} ELSE {})
              \cup (IF /\ \E k \in 1..(R - 1) : Capacity(x.c.levels_[k]) < 2 * x.c.B_
                       /\ \E k \in 1..(R - 1) : x.c.levels_[k].size > 0
                    THEN {"under_held"} ELSE {})]

\* DynamicArray::push_back, with the points before and after it
push_back(x, lvl, block) ==
    IF ~Running(x) THEN x
    ELSE LET d == Level(x, lvl)
             y == IF d.size >= Capacity(d)
                  THEN Seen(reserve(Point(x), lvl,
                                    IF Capacity(d) # 0 THEN Capacity(d) * 2 ELSE 4), "grown")
                  ELSE Point(x)
         IN IF ~Running(y) THEN y
            ELSE LET e == Level(y, lvl) IN
                 Point(SetLevel(y, lvl, [data |-> [e.data EXCEPT ![e.size + 1] = block],
                                         size |-> e.size + 1]))

\* delete p: deleting a block that was deleted before is undefined
DeleteOk(b) == b.st # "freed"

\* DynamicArray::pop_back
pop_back(x, lvl) ==
    IF ~Running(x) THEN x
    ELSE LET d == Level(x, lvl) IN
         IF d.size = 0 THEN Throw(x, "out_of_range")
         ELSE IF ~DeleteOk(d.data[d.size]) THEN Throw(x, "UB")
         ELSE SetLevel(x, lvl, [data |-> [d.data EXCEPT ![d.size] = NullBlock],
                                size |-> d.size - 1])

\* DynamicArray::clear
clear(x, lvl) ==
    IF ~Running(x) THEN x
    ELSE LET d == Level(x, lvl) IN
         IF \E i \in 1..d.size : i <= Capacity(d) /\ ~DeleteOk(d.data[i])
         THEN Throw(x, "UB")
         ELSE IF d.size > Capacity(d) THEN Throw(x, "UB")
         ELSE SetLevel(x, lvl, [data |-> [i \in 1..Capacity(d) |->
                                            IF i <= d.size THEN NullBlock ELSE d.data[i]],
                                size |-> 0])

\* DynamicArray::at, as a test of its bounds check
atOk(d, index) == index < d.size

\* ------------------------------------------------------------ construction
\* ResizableArray::initializeLevels
\* a spine reserved for B blocks only
initializeReserveB(B) == B
\* the capacity initializeLevels reserves for the spine of a level
initializeReserve(B) == 2 * B

RECURSIVE initializeLoop(_, _)
initializeLoop(x, i) ==
    IF ~Running(x) \/ i >= R THEN x
    ELSE LET a == [x EXCEPT !.c.n_[i] = 0]
             b == clear(a, i)
             d == IF i > 0 THEN reserve(b, i, initializeReserve(b.c.B_)) ELSE b
         IN initializeLoop(d, i + 1)

initializeLevels(x) ==
    IF ~Running(x) THEN x
    ELSE LET a == IF x.c.levels_ = NULLPTR
                  THEN LET y == Alloc(x) IN
                       IF Running(y)
                       THEN [y EXCEPT !.c.levels_ = [i \in 0..(R - 1) |-> DynamicArray]]
                       ELSE y
                  ELSE x
             b == IF Running(a) /\ a.c.n_ = NULLPTR
                  THEN LET y == Alloc(a) IN
                       IF Running(y)
                       THEN [y EXCEPT !.c.n_ = [i \in 0..(R - 1) |-> Indeterminate]]
                       ELSE y
                  ELSE a
             d == initializeLoop(b, 0)
         IN IF ~Running(d) THEN d
            ELSE [d EXCEPT !.c.N_ = 0, !.c.n0_ = 0]

\* ResizableArray::cleanupLevels
RECURSIVE cleanupLoop(_, _)
cleanupLoop(x, i) ==
    IF ~Running(x) \/ i >= R THEN x
    ELSE LET a == clear(x, i) IN
         IF ~Running(a) THEN a
         ELSE cleanupLoop([a EXCEPT !.c.n_[i] = 0], i + 1)

cleanupLevels(x) ==
    IF ~Running(x) THEN x
    ELSE IF x.c.levels_ = NULLPTR \/ x.c.n_ = NULLPTR
    THEN [x EXCEPT !.c.N_ = 0, !.c.n0_ = 0]
    ELSE LET d == cleanupLoop(x, 0) IN
         IF ~Running(d) THEN d
         ELSE [d EXCEPT !.c.N_ = 0, !.c.n0_ = 0]

\* ResizableArray::ResizableArray()
Members(N, B, levels, n, n0) ==
    [N_ |-> N, B_ |-> B, levels_ |-> levels, n_ |-> n, n0_ |-> n0]

DefaultConstruct(fuel) ==
    initializeLevels([Ctx(Members(0, INITIAL_B, NULLPTR, NULLPTR, 0)) EXCEPT !.fuel = fuel])

\* ResizableArray::power
RECURSIVE powerLoop(_, _, _)
powerLoop(result, base, exp) ==
    IF exp > 0
    THEN powerLoop(IF exp % 2 = 1 THEN result * base ELSE result,
                   base * base, exp \div 2)
    ELSE result

power(base, exp) == powerLoop(1, base, exp)

\* ------------------------------------------------------------------- get
\* the place get(index) resolves to: exc, or level lvl, block b, offset off
Place(exc, lvl, b, off) == [exc |-> exc, lvl |-> lvl, b |-> b, off |-> off]

\* levels_[lvl].at(b)->data[off]: the bounds check of at, then the access
Deref(c, lvl, b, off) ==
    LET d == c.levels_[lvl] IN
    IF ~atOk(d, b) THEN Place("out_of_range", lvl, b, off)
    ELSE IF b >= Capacity(d) THEN Place("UB", lvl, b, off)
    ELSE IF d.data[b + 1].st # "live" THEN Place("UB", lvl, b, off)
    ELSE IF off >= Len(d.data[b + 1].data) THEN Place("UB", lvl, b, off)
    ELSE Place("none", lvl, b, off)

\* the Level[1] part of get (lines 569-582)
getLevel1(c, xr) ==
    IF c.n_[1] = 0 THEN Place("runtime_error", 1, 0, 0)
    ELSE LET fullPart == IF c.n_[1] > 0 THEN (c.n_[1] - 1) * c.B_ ELSE 0 IN
         IF xr < fullPart
         THEN Deref(c, 1, xr \div c.B_, xr % c.B_)
         ELSE IF xr - fullPart >= c.n0_ THEN Place("runtime_error", 1, 0, 0)
         ELSE Deref(c, 1, c.n_[1] - 1, xr - fullPart)

\* the loop of get over the levels R-1 .. 2 (lines 555-567)
RECURSIVE getLoop(_, _, _)
getLoop(c, lvl, xr) ==
    IF lvl < 2 THEN getLevel1(c, xr)
    ELSE LET blockSize == power(c.B_, lvl)
             levelItems == c.n_[lvl] * blockSize
         IN IF xr < levelItems
            THEN Deref(c, lvl, xr \div blockSize, xr % blockSize)
            ELSE getLoop(c, lvl - 1, xr - levelItems)

\* the bounds check off by one: index N_ passes
getInRangeInclusive(c, index) == index <= c.N_
\* if (index >= N_) throw std::out_of_range (line 550), negated
getInRange(c, index) == index < c.N_

\* ResizableArray::get, as the place of the reference it returns
get(c, index) ==
    IF ~getInRange(c, index) THEN Place("out_of_range", 0, 0, 0)
    ELSE IF c.n_ = NULLPTR \/ c.levels_ = NULLPTR THEN Place("UB", 0, 0, 0)
    ELSE getLoop(c, R - 1, index)

\* the value read through the reference get returned
Read(c, pl) == c.levels_[pl.lvl].data[pl.b + 1].data[pl.off + 1]

\* the assignment through the reference get returned
Write(c, pl, item) ==
    [c EXCEPT !.levels_[pl.lvl].data[pl.b + 1].data[pl.off + 1] = item]

\* ResizableArray::set
set(x, index, item) ==
    IF ~Running(x) THEN x
    ELSE LET pl == get(x.c, index) IN
         IF pl.exc # "none" THEN Throw(x, pl.exc)
         ELSE SetC(x, Write(x.c, pl, item))

\* ------------------------------------------------------------ locateItem
\* what locateItem(index) returns: exc, or the pair {lvl, off}
Located(exc, lvl, off) == [exc |-> exc, lvl |-> lvl, off |-> off]

\* the level skipped with the block size of the level below
locateLevelItemsSmaller(c, lvl) == c.n_[lvl] * power(c.B_, lvl - 1)
\* levelItems = n_[lvl] * power(B_, lvl) (lines 238-239)
locateLevelItems(c, lvl) == c.n_[lvl] * power(c.B_, lvl)

\* for (lvl = R - 1; lvl >= 2; --lvl) ... return {1u, remaining} (lines 237-250)
RECURSIVE locateLoop(_, _, _)
locateLoop(c, lvl, remaining) ==
    IF lvl < 2 THEN Located("none", 1, remaining)
    ELSE IF remaining < locateLevelItems(c, lvl) THEN Located("none", lvl, remaining)
    ELSE locateLoop(c, lvl - 1, remaining - locateLevelItems(c, lvl))

\* ResizableArray::locateItem
locateItem(c, index) ==
    IF index >= c.N_ THEN Located("out_of_range", 0, 0)
    ELSE IF c.n_ = NULLPTR THEN Located("UB", 0, 0)
    ELSE locateLoop(c, R - 1, index)

\* ---------------------------------------------------------- combineBlocks
\* k = min{i in 1..R-1 | n_i < 2B}, 0 when there is none (lines 256-259)
RECURSIVE combineFindK(_, _)
combineFindK(c, i) ==
    IF i >= R THEN 0
    ELSE IF c.n_[i] < 2 * c.B_ THEN i
    ELSE combineFindK(c, i + 1)

\* new DataBlock(cap): the object and its T[cap] are two allocations
NewBlock(x) == Alloc(Alloc(x))

\* a source block of a copy can be read up to size elements
Readable(b, size) == b.st = "live" /\ Len(b.data) >= size

\* the copy taken from the last B blocks of the level, not the first B
combineCopyLastB(d, smallSize, q) ==
    d.data[(q \div smallSize) + 1 + (d.size \div 2)].data[(q % smallSize) + 1]
\* big->data[j * smallSize + p] = src->data[p] (line 273), q = j * smallSize + p
combineCopy(d, smallSize, q) == d.data[(q \div smallSize) + 1].data[(q % smallSize) + 1]

\* the copy loop over j = 0..B-1 (lines 270-277) stopped by the first j whose
\* at(j) throws or whose block cannot be read; the blocks before it are deleted
combineFirstBad(d, B, smallSize) ==
    LET bad == {j \in 0..(B - 1) :
                  ~atOk(d, j) \/ j >= Capacity(d) \/ ~Readable(d.data[j + 1], smallSize)}
    IN IF bad = {} THEN B ELSE CHOOSE j \in bad : \A m \in bad : j <= m

\* the shift A[i][j] = A[i][j+B], A[i][j+B] = nullptr (lines 280-283) for the
\* first m values of j; at(j + B) throws at j = size - B when size < 2B
combineShiftCount(d, B) ==
    IF d.size >= 2 * B THEN B ELSE IF d.size > B THEN d.size - B ELSE 0

\* the shift that copies the handles down and leaves them in the upper slots too
combineShiftKeepsSource(d, B, m) ==
    [d EXCEPT !.data = [s \in 1..Capacity(d) |->
                          IF s <= m THEN d.data[s + B] ELSE d.data[s]]]
\* no shift: the deleted blocks stay in the first B slots
combineShiftNone(d, B, m) == d
\* the spine after the first m moves of the shift loop
combineShift(d, B, m) ==
    [d EXCEPT !.data = [s \in 1..Capacity(d) |->
                          IF s <= m THEN d.data[s + B]
                          ELSE IF s > B /\ s <= B + m THEN NullBlock
                          ELSE d.data[s]]]

\* the exponent of the big block off by one
combineBigSizeNextLevel(B, i) == power(B, i + 2)
\* bigSize = power(B_, i + 1) (line 265)
combineBigSize(B, i) == power(B, i + 1)

\* every block of the level stays counted after the combine
combineKeptAll(B) == 2 * B
\* n_[i] = B_; levels_[i].size = B_ (lines 286-287)
combineKept(B) == B

\* one iteration of the loop of combineBlocks, at level i (lines 264-291)
combineStep(x, i) ==
    LET B == x.c.B_
        smallSize == power(B, i)
        bigSize == combineBigSize(B, i)
        d == Level(x, i)
        y == NewBlock(x)
        stop == combineFirstBad(d, B, smallSize)
        deleted == [d EXCEPT !.data = [s \in 1..Capacity(d) |->
                                         IF s <= stop THEN FreedBlock ELSE d.data[s]]]
        big == BlockOf([q1 \in 1..bigSize |->
                          IF q1 <= B * smallSize
                          THEN combineCopy(d, smallSize, q1 - 1)
                          ELSE Indeterminate])
    IN IF ~Running(y) THEN y
       ELSE IF stop < B
       THEN Leak(Throw(SetLevel(y, i, deleted),
                       IF ~atOk(d, stop) THEN "out_of_range" ELSE "UB"), 1)
       ELSE IF bigSize < B * smallSize THEN Throw(SetLevel(y, i, deleted), "UB")
       ELSE IF combineShiftCount(d, B) < B
       THEN Leak(Throw(SetLevel(y, i, combineShift(deleted, B, combineShiftCount(d, B))),
                       "out_of_range"), 1)
       ELSE LET shifted == [combineShift(deleted, B, B) EXCEPT !.size = combineKept(B)]
                a == Point(Released([SetLevel(y, i, shifted)
                                       EXCEPT !.c.n_[i] = combineKept(B)], i, B))
                b == push_back(a, i + 1, big)
            IN IF ~Running(b) THEN Leak(b, 1)
               ELSE [b EXCEPT !.c.n_[i + 1] = @ + 1]

\* for (i = k - 1; i >= 1; --i) ... if (i == 1) break (lines 263-294)
RECURSIVE combineLoop(_, _)
combineLoop(x, i) ==
    IF ~Running(x) \/ i < 1 THEN x
    ELSE combineLoop(combineStep(Trip(x), i), i - 1)

\* ResizableArray::combineBlocks
combineBlocks(x) ==
    IF ~Running(x) THEN x
    ELSE LET k == combineFindK(x.c, 1) IN
         IF k = 0 THEN Throw(x, "runtime_error")
         ELSE combineLoop(x, k - 1)

\* ------------------------------------------------------------ splitBlocks
\* the search that skips the level it is started at
RECURSIVE splitFindKAbove(_, _)
splitFindKAbove(c, i) ==
    IF i + 1 >= R THEN 0
    ELSE IF c.n_[i + 1] > 0 THEN i + 1
    ELSE splitFindKAbove(c, i + 1)

\* the smallest k in 2..R-1 with n_k > 0, 0 when there is none (lines 303-306)
RECURSIVE splitFindK(_, _)
splitFindK(c, i) ==
    IF i >= R THEN 0
    ELSE IF c.n_[i] > 0 THEN i
    ELSE splitFindK(c, i + 1)

\* every new block a copy of the first slice of big
splitSliceFirst(big, smallSize, j) ==
    BlockOf([p1 \in 1..smallSize |-> big.data[p1]])
\* tmp[j]: a new block of smallSize holding the j-th slice of big (lines 326-329)
splitSlice(big, smallSize, j) ==
    BlockOf([p1 \in 1..smallSize |-> big.data[j * smallSize + p1]])

\* one block kept at every level above Level[1]
splitKeptOne(B, i) == IF i = 1 THEN B ELSE 1
\* the blocks of tmp pushed onto Level[i]: all B at level 1, the first B - 1
\* above it (lines 335-337, 343-345)
splitKept(B, i) == IF i = 1 THEN B ELSE B - 1

\* a push_back that throws leaves tmp and the blocks tmp[j..B-1] unowned
RECURSIVE splitPush(_, _, _, _, _, _)
splitPush(x, i, big, smallSize, j, count) ==
    IF ~Running(x) \/ j >= count THEN x
    ELSE splitPush(Leak(push_back(x, i, splitSlice(big, smallSize, j)), 1 + x.c.B_ - j),
                   i, big, smallSize, j + 1, count)

\* the allocations of one iteration: tmp, then B blocks (lines 322-326)
RECURSIVE AllocTimes(_, _)
AllocTimes(x, times) ==
    IF ~Running(x) \/ times = 0 THEN x ELSE AllocTimes(NewBlock(x), times - 1)

\* the objects only the locals big and tmp point to when the allocation that
\* follows fuel successful ones of an iteration throws: big; after tmp was
\* allocated also tmp and the blocks already stored in it (a DataBlock whose
\* T[] cannot be allocated is released by the new-expression)
splitLost(fuel) == IF fuel = 0 THEN 1 ELSE 2 + ((fuel - 1) \div 2)

\* the loop of splitBlocks from level i down to 1, carrying big (lines 318-352)
RECURSIVE splitLoop(_, _, _)
splitLoop(x, i, big) ==
    IF ~Running(x) \/ i < 1 THEN x
    ELSE LET B == x.c.B_
             smallSize == power(B, i)
             y == AllocTimes(Alloc(Trip(x)), B)
         IN IF ~Running(y) THEN Leak(y, splitLost(x.fuel))
            ELSE IF ~Readable(big, B * smallSize) THEN Throw(y, "UB")
            ELSE LET a == splitPush(y, i, big, smallSize, 0, splitKept(B, i))
                 IN IF ~Running(a) THEN a
                    ELSE IF i = 1
                    THEN [a EXCEPT !.c.n_[1] = @ + B]
                    ELSE splitLoop([a EXCEPT !.c.n_[i] = @ + (B - 1)], i - 1,
                                   splitSlice(big, smallSize, B - 1))

\* n0_ set as if the pop's decrement had already happened
splitN0Decremented(B) == B - 1
\* the value n0_ has after a split (line 355)
splitN0(B) == B

\* ResizableArray::splitBlocks
splitBlocks(x) ==
    IF ~Running(x) THEN x
    ELSE LET k == splitFindK(x.c, 2) IN
         IF k = 0 THEN Throw(x, "runtime_error")
         ELSE LET d == Level(x, k)
                  last == Dec(x.c.n_[k])
              IN IF ~atOk(d, last) THEN Throw(x, "out_of_range")
                 ELSE LET big == d.data[last + 1]
                          a == SetLevel(x, k, [data |-> [d.data EXCEPT ![last + 1] = NullBlock],
                                               size |-> d.size - 1])
                          b == Point([a EXCEPT !.c.n_[k] = last])
                          e == splitLoop(b, k - 1, big)
                      IN IF ~Running(e) THEN e
                         ELSE [e EXCEPT !.c.n0_ = splitN0(e.c.B_)]

\* ----------------------------------------------------------- grow, rebuild
\* the rebuild one append late
growRebuildsLate(c) == c.N_ = power(c.B_, R) + 1
\* if (N_ == power(B_, R)) rebuild(2 * B_) (lines 496-498)
growRebuilds(c) == c.N_ = power(c.B_, R)
\* the combine one block late
growCombinesLate(c) == c.n_[1] > 2 * c.B_ /\ c.n0_ = c.B_
\* if (n_[1] == 2 * B_ && n0_ == B_) combineBlocks() (lines 499-501)
growCombines(c) == c.n_[1] = 2 * c.B_ /\ c.n0_ = c.B_
\* a new Level[1] block only when there is none
growAllocatesWhenEmpty(c) == c.n_[1] = 0
\* if (n_[1] == 0 || n0_ == B_) a new Level[1] block (lines 502-506)
growAllocates(c) == c.n_[1] = 0 \/ c.n0_ = c.B_

\* the first i < oldN whose get(i) does not return an element, oldN if none
\* (the copy-out loop of rebuild, lines 367-370)
FirstUnreadable(c, oldN) ==
    LET bad == {i \in 0..(oldN - 1) : get(c, i).exc # "none"}
    IN IF bad = {} THEN oldN ELSE CHOOSE i \in bad : \A m \in bad : i <= m

RECURSIVE grow(_, _)
RECURSIVE rebuild(_, _)
RECURSIVE growRange(_, _, _, _)

\* grow(buffer[lo]); ...; grow(buffer[hi]) in this order, stopped by the first
\* exception; the run is cut in halves to keep the evaluation shallow
growRange(x, buffer, lo, hi) ==
    IF ~Running(x) \/ lo > hi THEN x
    ELSE IF lo = hi THEN grow(x, buffer[lo])
    ELSE growRange(growRange(x, buffer, lo, (lo + hi) \div 2),
                   buffer, ((lo + hi) \div 2) + 1, hi)

\* for (i < constructed) grow(buffer[i]) (lines 384-387; copies of the copy
\* constructor and of copy assignment use the same loop)
growAll(x, buffer, i) == growRange(x, buffer, i, Len(buffer))

\* the buffer is released by the last statement only (line 388)
rebuildLost(oldN) == IF oldN > 0 THEN 1 ELSE 0

\* the rebuild that keeps the old B_
rebuildSetBKeeps(x, newB) == x
\* B_ = newB (line 380)
rebuildSetB(x, newB) == IF Running(x) THEN [x EXCEPT !.c.B_ = newB] ELSE x

\* ResizableArray::rebuild
rebuild(x, newB) ==
    IF ~Running(x) THEN x
    ELSE LET oldN == x.c.N_
             y == IF oldN > 0 THEN Alloc(Entered(x)) ELSE Entered(x)
             stop == FirstUnreadable(x.c, oldN)
         IN IF ~Running(y) THEN y
            ELSE IF stop < oldN THEN Throw(y, get(x.c, stop).exc)
            ELSE LET buffer == [i \in 1..oldN |-> Read(x.c, get(x.c, i - 1))]
                     a == Torn(cleanupLevels(y))
                     b == Point(rebuildSetB(a, newB))
                     d == initializeLevels(b)
                 IN Leak(growAll(d, buffer, 1), rebuildLost(oldN))

\* the store without N_ += 1
growStoreNoCount(x, item) ==
    IF ~Running(x) THEN x
    ELSE LET c == x.c
             pl == Deref(c, 1, Dec(c.n_[1]), c.n0_)
         IN IF pl.exc # "none" THEN Throw(x, pl.exc)
            ELSE SetC(x, [Write(c, pl, item) EXCEPT !.n0_ = @ + 1])
\* levels_[1].at(n_[1] - 1)->data[n0_] = item; n0_ += 1; N_ += 1 (lines 508-510)
growStore(x, item) ==
    IF ~Running(x) THEN x
    ELSE LET c == x.c
             pl == Deref(c, 1, Dec(c.n_[1]), c.n0_)
         IN IF pl.exc # "none" THEN Throw(x, pl.exc)
            ELSE SetC(x, [Write(c, pl, item) EXCEPT !.n0_ = @ + 1, !.N_ = @ + 1])

\* the rebuild-up that halves B
growRebuildHalves(x) ==
    IF Running(x) /\ growRebuilds(x.c) THEN rebuild(x, x.c.B_ \div 2) ELSE x
\* the rebuild-up that keeps B
growRebuildSameB(x) ==
    IF Running(x) /\ growRebuilds(x.c) THEN rebuild(x, x.c.B_) ELSE x
\* if (N_ == power(B_, R)) rebuild(2 * B_) (lines 496-498)
growRebuild(x) ==
    IF Running(x) /\ growRebuilds(x.c) THEN rebuild(x, 2 * x.c.B_) ELSE x
\* n_[1] and levels_[1] are read through the member pointers (lines 499-508)
growMembers(x) ==
    IF Running(x) /\ (x.c.n_ = NULLPTR \/ x.c.levels_ = NULLPTR) THEN Throw(x, "UB") ELSE x
\* if (n_[1] == 2 * B_ && n0_ == B_) combineBlocks() (lines 499-501)
growCombine(x) ==
    IF Running(x) /\ growCombines(x.c) THEN combineBlocks(x) ELSE x
\* n_[1] += 1; n0_ = 0 (lines 504-505)
growCount(x) ==
    IF Running(x) THEN [x EXCEPT !.c.n_[1] = @ + 1, !.c.n0_ = 0] ELSE x
\* levels_[1].push_back(block): the block is unowned if push_back throws
growPush(x) ==
    IF Running(x) THEN Leak(push_back(x, 1, DataBlock(x.c.B_)), 1) ELSE x
\* a new Level[1] block when there is none or the last is full (lines 502-506)
growBlock(x) ==
    IF Running(x) /\ growAllocates(x.c)
    THEN growCount(growPush(NewBlock(x)))
    ELSE x

\* ResizableArray::grow
grow(x, item) ==
    growStore(growBlock(growCombine(growMembers(growRebuild(x)))), item)

\* the store of grow when item is bound to an element of the container: the
\* value is read through the reference now; reading a deleted block is
\* undefined
growStoreOwn(x) ==
    IF ~Running(x) THEN x
    ELSE LET c == x.c
             pl == Deref(c, 1, Dec(c.n_[1]), c.n0_)
             src == x.item
         IN IF pl.exc # "none" THEN Throw(x, pl.exc)
            ELSE IF src.exc # "none" THEN Throw(x, "UB")
            ELSE IF Deref(c, src.lvl, src.b, src.off).exc # "none" THEN Throw(x, "UB")
            ELSE SetC(x, [Write(c, pl, Read(c, src)) EXCEPT !.n0_ = @ + 1, !.N_ = @ + 1])

\* grow(get(index)): the argument is evaluated first, then grow runs with
\* item bound to the element
growOwn(x, index) ==
    IF ~Running(x) THEN x
    ELSE LET pl == get(x.c, index) IN
         IF pl.exc # "none" THEN Throw(x, pl.exc)
         ELSE growStoreOwn(growBlock(growCombine(growMembers(growRebuild(
                  [x EXCEPT !.item = pl])))))

\* ------------------------------------------------------------------ shrink
\* a downward rebuild as soon as N falls to (B/2)^R + 1
shrinkRebuildsEarly(c) == c.B_ >= 8 /\ c.N_ = power(c.B_ \div 2, R) + 1
\* the rebuild-down without the guard B_ >= 8
shrinkRebuildsFromInitialB(c) == c.N_ = power(c.B_ \div 4, R)
\* the rebuild-down at (B / 8)^R instead of (B / 4)^R
shrinkRebuildsLate(c) == c.B_ >= 8 /\ c.N_ = power(c.B_ \div 8, R)
\* if (B_ >= 8 && N_ == power(B_ / 4, R)) rebuild(B_ / 2) (lines 520-524)
shrinkRebuilds(c) == c.B_ >= 8 /\ c.N_ = power(c.B_ \div 4, R)

\* the release that leaves n0_ at 0 although a full Level[1] block remains
shrinkReleaseKeepsZero(x) ==
    IF ~Running(x) \/ x.c.n0_ # 0 THEN x
    ELSE LET a == pop_back(x, 1) IN
         IF ~Running(a) THEN a
         ELSE [a EXCEPT !.c.n_[1] = Dec(@), !.c.n0_ = 0]
\* the release that sets n0_ = B_ although no Level[1] block remains
shrinkReleaseAlwaysFull(x) ==
    IF ~Running(x) \/ x.c.n0_ # 0 THEN x
    ELSE LET a == pop_back(x, 1) IN
         IF ~Running(a) THEN a
         ELSE [a EXCEPT !.c.n_[1] = Dec(@), !.c.n0_ = a.c.B_]
\* lines 535-545: the emptied last Level[1] block is released
shrinkRelease(x) ==
    IF ~Running(x) \/ x.c.n0_ # 0 THEN x
    ELSE LET a == pop_back(x, 1) IN
         IF ~Running(a) THEN a
         ELSE LET b == [a EXCEPT !.c.n_[1] = Dec(@)] IN
              IF b.c.N_ = 0 \/ b.c.n_[1] = 0
              THEN [b EXCEPT !.c.n0_ = 0]
              ELSE [b EXCEPT !.c.n0_ = b.c.B_]

\* the emptiness test of a signed habit: never true of a size_t
shrinkEmptyNegative(c) == c.N_ < 0
\* if (N_ == 0) throw std::out_of_range (lines 515-517)
shrinkEmpty(c) == c.N_ = 0

\* the rebuild-down to B / 4
shrinkRebuildQuarter(x) ==
    IF Running(x) /\ shrinkRebuilds(x.c) THEN rebuild(x, x.c.B_ \div 4) ELSE x
\* if (B_ >= 8 && N_ == power(B_ / 4, R)) rebuild(B_ / 2) (lines 520-524)
shrinkRebuild(x) ==
    IF Running(x) /\ shrinkRebuilds(x.c) THEN rebuild(x, x.c.B_ \div 2) ELSE x
\* n_[1] and levels_[1] are read through the member pointers (lines 526-545)
shrinkMembers(x) ==
    IF Running(x) /\ (x.c.n_ = NULLPTR \/ x.c.levels_ = NULLPTR) THEN Throw(x, "UB") ELSE x
\* the split run already when one Level[1] block is left
shrinkSplitEager(x) ==
    IF Running(x) /\ x.c.n_[1] <= 1 THEN splitBlocks(x) ELSE x
\* if (n_[1] == 0) splitBlocks() (lines 526-528)
shrinkSplit(x) ==
    IF Running(x) /\ x.c.n_[1] = 0 THEN splitBlocks(x) ELSE x
\* n0_ -= 1; N_ -= 1 (lines 531-532)
shrinkCount(x) ==
    IF Running(x) THEN [x EXCEPT !.c.n0_ = Dec(@), !.c.N_ = Dec(@)] ELSE x

\* ResizableArray::shrink
shrink(x) ==
    IF ~Running(x) THEN x
    ELSE IF shrinkEmpty(x.c) THEN Throw(x, "out_of_range")
    ELSE shrinkRelease(shrinkCount(shrinkSplit(shrinkMembers(shrinkRebuild(x)))))

\* ------------------------------------------------------------ copy and move
\* the copy loop stopped one element early
copyElementsButLast(x, other) ==
    IF ~Running(x) THEN x
    ELSE growAll(x, [i \in 1..(other.N_ - 1) |-> Read(other, get(other, i - 1))], 1)
\* for (i < other.N_) grow(other.get(i)) (lines 423-425, 459-461)
copyElements(x, other) ==
    IF ~Running(x) THEN x
    ELSE LET stop == FirstUnreadable(other, other.N_)
             buffer == [i \in 1..stop |-> Read(other, get(other, i - 1))]
             a == growAll(x, buffer, 1)
         IN IF Running(a) /\ stop < other.N_ THEN Throw(a, get(other, stop).exc)
            ELSE a

\* ResizableArray::ResizableArray(const ResizableArray&)
CopyConstructor(other, fuel) ==
    copyElements(
        initializeLevels([Ctx(Members(0, other.B_, NULLPTR, NULLPTR, 0)) EXCEPT !.fuel = fuel]),
        other)

\* the members a move leaves in its source (lines 432-435, 479-482)
MovedFrom(other) == Members(0, other.B_, NULLPTR, NULLPTR, 0)

\* ResizableArray::ResizableArray(ResizableArray&&): the new object
MoveConstructor(other) ==
    Members(other.N_, other.B_, other.levels_, other.n_, other.n0_)

\* for (i = 1; i < R; ++i) levels_[i].reserve(2 * B_) (lines 454-456)
RECURSIVE reserveLoop(_, _)
reserveLoop(x, i) ==
    IF ~Running(x) \/ i >= R THEN x
    ELSE reserveLoop(reserve(x, i, 2 * x.c.B_), i + 1)

\* ResizableArray::operator=(const ResizableArray&), this != &other
CopyAssignment(x, other) ==
    IF ~Running(x) THEN x
    ELSE LET a == Point([x EXCEPT !.c.B_ = other.B_])
             b == IF a.c.levels_ = NULLPTR \/ a.c.n_ = NULLPTR
                  THEN initializeLevels([a EXCEPT !.c.levels_ = NULLPTR, !.c.n_ = NULLPTR])
                  ELSE reserveLoop(cleanupLevels(a), 1)
         IN copyElements(b, other)

\* ResizableArray::operator=(ResizableArray&&), this != &other: the new *this
MoveAssignment(x, other) ==
    IF ~Running(x) THEN x
    ELSE LET a == cleanupLevels(x) IN
         IF ~Running(a) THEN a
         ELSE SetC(a, Members(other.N_, other.B_, other.levels_, other.n_, other.n0_))

\* ------------------------------------------------------------------- state
VARIABLES
    arr,    \* arr[c]: the container object c
    ref,    \* ref[c]: the plain reference sequence kept in step with arr[c]
    res     \* how the last public call ended: Returned, or Threw(call, exc)

vars == <<arr, ref, res, r_>>

Returned == [call |-> "", exc |-> "none"]
Threw(call, exc) == [call |-> call, exc |-> exc]
Result(call, exc) == IF exc = "none" THEN Returned ELSE Threw(call, exc)
\* an assignment returned at its self-assignment test (lines 440, 466)
ReturnedSelf == [call |-> "self_assign", exc |-> "none"]

Init ==
    /\ r_ = DefaultR
    /\ arr = [c \in Cids |-> DefaultConstruct(NoFail).c]
    /\ ref = [c \in Cids |-> <<>>]
    /\ res = Returned

\* undefined behaviour ends the program
Alive == res.exc # "UB"

\* the outcome of the member call on container c that ended in context x
Outcome(c, x, call, newref) ==
    /\ UNCHANGED r_
    /\ res' = Result(call, x.exc)
    /\ IF x.exc = "UB"
       THEN UNCHANGED <<arr, ref>>
       ELSE /\ arr' = [arr EXCEPT ![c] = x.c]
            /\ ref' = [ref EXCEPT ![c] = IF x.exc = "none" THEN newref ELSE @]

\* the values a call may store at position p: the plain value p + 1 or,
\* while the container's blocks hold no marked value, its marked twin
\* -(p + 1).  The container never inspects an element, so one distinguished
\* element at an arbitrary position tells every position from every other.
Plain(p) == p + 1
NoMark(c) ==
    \A lvl \in 1..(R - 1) : \A s \in 1..c.levels_[lvl].size :
        \A q \in 1..Len(c.levels_[lvl].data[s].data) : c.levels_[lvl].data[s].data[q] >= 0
Items(c, p) == {Plain(p)} \cup (IF NoMark(c) THEN {0 - Plain(p)} ELSE {})

DropLast(seq) == SubSeq(seq, 1, Len(seq) - 1)

\* c.grow(item)
Grow(c, item) ==
    /\ Alive
    /\ arr[c].N_ < MaxN
    /\ Outcome(c, grow(Ctx(arr[c]), item), "grow", Append(ref[c], item))

\* c.shrink()
Shrink(c) ==
    /\ Alive
    /\ Outcome(c, shrink(Ctx(arr[c])), "shrink", DropLast(ref[c]))

\* c.get(i), c[i]
Get(c, i) ==
    /\ Alive
    /\ res' = Result("get", get(arr[c], i).exc)
    /\ UNCHANGED <<arr, ref, r_>>

\* c.set(i, item)
Set(c, i, item) ==
    /\ Alive
    /\ Outcome(c, set(Ctx(arr[c]), i, item), "set",
               [k \in 1..Len(ref[c]) |-> IF k = i + 1 THEN item ELSE ref[c][k]])

\* ResizableArray dst(src): the object dst is constructed as a copy of src
CopyConstruct(dst, src) ==
    /\ Alive
    /\ dst # src
    /\ Outcome(dst, CopyConstructor(arr[src], NoFail), "copy_construct", ref[src])

\* ResizableArray dst(std::move(src))
MoveConstruct(dst, src) ==
    /\ Alive
    /\ dst # src
    /\ UNCHANGED r_
    /\ res' = Returned
    /\ arr' = [arr EXCEPT ![dst] = MoveConstructor(arr[src]), ![src] = MovedFrom(arr[src])]
    /\ ref' = [ref EXCEPT ![dst] = ref[src], ![src] = <<>>]

\* the self-assignment test that never finds the same object
SameObjectNever(dst, src) == FALSE
\* if (this == &other) return *this (lines 440, 466)
SameObject(dst, src) == dst = src

\* dst = src
CopyAssign(dst, src) ==
    /\ Alive
    /\ IF SameObject(dst, src)
       THEN res' = ReturnedSelf /\ UNCHANGED <<arr, ref, r_>>
       ELSE Outcome(dst, CopyAssignment(Ctx(arr[dst]), arr[src]), "copy_assign", ref[src])

\* dst = std::move(src)
MoveAssign(dst, src) ==
    /\ Alive
    /\ UNCHANGED r_
    /\ IF SameObject(dst, src)
       THEN res' = ReturnedSelf /\ UNCHANGED <<arr, ref>>
       ELSE LET x == MoveAssignment(Ctx(arr[dst]), arr[src]) IN
            /\ res' = Result("move_assign", x.exc)
            /\ IF x.exc # "none"
               THEN UNCHANGED <<arr, ref>>
               ELSE /\ arr' = [arr EXCEPT ![dst] = x.c, ![src] = MovedFrom(arr[src])]
                    /\ ref' = [ref EXCEPT ![dst] = ref[src], ![src] = <<>>]

\* the indices get is probed with: both ends, the first invalid one, one beyond
Probes(c) == {i \in {0, arr[c].N_ - 1, arr[c].N_, arr[c].N_ + 1} : i >= 0}

\* the writes SpecData calls set with: the marked value at any position
\* while no marked value is stored, the plain value at a position holding
\* the marked one
Writes(c) ==
    {<<i, 0 - Plain(i)>> : i \in {j \in 0..(arr[c].N_ - 1) : NoMark(arr[c])}}
    \cup {<<i, Plain(i)>> : i \in {j \in 0..(Len(ref[c]) - 1) : ref[c][j + 1] < 0}}

\* one container under append, pop, at and set of plain values
Next ==
    \/ Grow(1, Plain(arr[1].N_))
    \/ Shrink(1)
    \/ \E i \in Probes(1) : Get(1, i)
    \/ \E i \in Probes(1) : Set(1, i, Plain(i))

Spec == Init /\ [][Next]_vars

\* one container under append, pop and set, with a distinguished element
NextData ==
    \/ \E item \in Items(arr[1], arr[1].N_) : Grow(1, item)
    \/ Shrink(1)
    \/ \E w \in Writes(1) : Set(1, w[1], w[2])

SpecData == Init /\ [][NextData]_vars

\* the container after k appends of plain values to an empty one
Filled(k) == growAll(DefaultConstruct(NoFail), [i \in 1..k |-> Plain(i - 1)], 1).c

\* two containers under append, pop, copy and move, both empty at first
InitCM ==
    /\ r_ = DefaultR
    /\ arr = [c \in Cids |-> DefaultConstruct(NoFail).c]
    /\ ref = [c \in Cids |-> <<>>]
    /\ res = Returned

\* HighN appends in a row to the first container while both are as
\* constructed: SpecCM skips the lengths between LowN and HighN
FillCM ==
    /\ \A c \in Cids : arr[c] = DefaultConstruct(NoFail).c
    /\ res = Returned
    /\ UNCHANGED <<res, r_>>
    /\ arr' = [arr EXCEPT ![1] = Filled(HighN)]
    /\ ref' = [ref EXCEPT ![1] = [i \in 1..HighN |-> Plain(i - 1)]]

GrowCM(c) ==
    /\ arr[c].N_ < LowN \/ arr[c].N_ >= HighN
    /\ Grow(c, Plain(arr[c].N_))

ShrinkCM(c) ==
    /\ arr[c].N_ <= LowN \/ arr[c].N_ > HighN
    /\ Shrink(c)

NextCM ==
    \/ FillCM
    \/ \E c \in Cids : GrowCM(c)
    \/ \E c \in Cids : ShrinkCM(c)
    \/ \E dst \in Cids, src \in Cids : CopyConstruct(dst, src)
    \/ \E dst \in Cids, src \in Cids : MoveConstruct(dst, src)
    \/ \E dst \in Cids, src \in Cids : CopyAssign(dst, src)
    \/ \E dst \in Cids, src \in Cids : MoveAssign(dst, src)

SpecCM == InitCM /\ [][NextCM]_vars

\* c.set(0, item): the first element marked, or restored
SetCM(c) ==
    \E w \in Writes(c) : w[1] = 0 /\ Set(c, w[1], w[2])

\* two containers under append, pop, set, copy and move
NextCopy ==
    \/ NextCM
    \/ \E c \in Cids : SetCM(c)

SpecCopy == InitCM /\ [][NextCopy]_vars

\* ResizableArray<int, 3> or ResizableArray<int, 4>: one container under
\* append and pop
InitDeep ==
    /\ r_ \in {DefaultR, DeepR}
    /\ arr = [c \in Cids |-> DefaultConstruct(NoFail).c]
    /\ ref = [c \in Cids |-> <<>>]
    /\ res = Returned

GrowDeep(c) ==
    /\ Alive
    /\ arr[c].N_ < MaxDeepN
    /\ Outcome(c, grow(Ctx(arr[c]), Plain(arr[c].N_)), "grow",
               Append(ref[c], Plain(arr[c].N_)))

NextDeep ==
    \/ GrowDeep(1)
    \/ Shrink(1)

SpecDeep == InitDeep /\ [][NextDeep]_vars

\* =================================================================== checks
\* at(i): the element read at index i (Indeterminate when get throws)
At(c, i) == LET pl == get(c, i) IN IF pl.exc = "none" THEN Read(c, pl) ELSE Indeterminate

\* no call of the model's runs ended in undefined behaviour or an internal error
NoInternalError == res.exc \in {"none", "out_of_range"}

\* C1 (SpecData): after every step the reference sequence has len() elements
\* and at(i) returns the reference element at i for every i < len(), that is
\* the value of the i-th surviving append unless a later set(i, v) overwrote it.
C1_AtMatchesReference ==
    /\ Len(ref[1]) = arr[1].N_
    /\ \A i \in 0..(arr[1].N_ - 1) :
          /\ get(arr[1], i).exc = "none"
          /\ At(arr[1], i) = ref[1][i + 1]

\* C1 witness: past the rebuild-up (B doubled), with blocks combined into
\* Level[2] before it, the distinguished element is read back where it was stored
C1_Witness ==
    /\ arr[1].B_ = 2 * INITIAL_B
    /\ arr[1].N_ > power(INITIAL_B, R)
    /\ \E i \in 0..(arr[1].N_ - 1) : ref[1][i + 1] < 0 /\ At(arr[1], i) = ref[1][i + 1]

\* a step of append or pop changes len() by exactly one, or throws and leaves it
LenStepsByOne ==
    /\ (Grow(1, Plain(arr[1].N_)) /\ res' = Returned) => (arr'[1].N_ = arr[1].N_ + 1)
    /\ (Shrink(1) /\ res' = Returned) => (arr'[1].N_ = arr[1].N_ - 1)
    /\ (Shrink(1) /\ res' # Returned) => (arr'[1].N_ = arr[1].N_)

\* C2 (Spec): len() equals the number of appends minus the number of pops
\* that did not throw (the length of the reference sequence); an append that
\* returns raises len() by exactly 1, a pop that returns lowers it by exactly
\* 1, a pop that throws leaves it, whatever restructuring the call performs.
C2_LenCountsAppendsAndPops ==
    /\ [](arr[1].N_ = Len(ref[1]))
    /\ [][LenStepsByOne]_vars

\* C2 witness: 65 appends, the last of them through a rebuild-up
C2_Witness ==
    /\ res = Returned
    /\ arr[1].N_ = power(INITIAL_B, R) + 1
    /\ arr[1].B_ = 2 * INITIAL_B
    /\ Len(ref[1]) = arr[1].N_

\* C3 (Spec): in every state with N = 0, pop throws std::out_of_range and
\* leaves every member of the container (N, B, n0, the counts n[k] and the
\* levels) as it was, so a repeated pop meets the same state and throws again.
C3_PopOnEmptyThrows ==
    arr[1].N_ = 0 => shrink(Ctx(arr[1])) = Throw(Ctx(arr[1]), "out_of_range")

\* C3 witness: a pop has thrown on the empty container
C3_Witness ==
    /\ res = Threw("shrink", "out_of_range")
    /\ arr[1].N_ = 0
    /\ ref[1] = <<>>

C5_AppendPopRestores ==
    \A item \in {Plain(arr[1].N_), 0 - Plain(arr[1].N_)} :
        LET x == shrink(grow(Ctx(arr[1]), item)) IN
        /\ x.exc = "none"
        /\ x.c.N_ = arr[1].N_
        /\ \A j \in 0..(arr[1].N_ - 1) :
              get(x.c, j).exc = "none" /\ At(x.c, j) = At(arr[1], j)

\* C5 witness: a state whose append combines blocks, reached by pops (the
\* Level[1] blocks came out of a split) and holding the distinguished element
C5_Witness ==
    /\ growCombines(arr[1])
    /\ arr[1].n_[2] > 0
    /\ \E i \in 0..(arr[1].N_ - 1) : ref[1][i + 1] < 0

\* the elements held by the levels 2..R-1: the sum of n[k] * B^k
RECURSIVE UpperItems(_, _)
UpperItems(c, k) ==
    IF k >= R THEN 0 ELSE c.n_[k] * power(c.B_, k) + UpperItems(c, k + 1)

\* C6 (Spec): I3 between public operations: N = n0 + (n[1] - 1) * B + the
\* sum over k = 2..R-1 of n[k] * B^k when n[1] > 0, and N = that sum when
\* n[1] = 0.
C6_CountersI3 ==
    IF arr[1].n_[1] > 0
    THEN arr[1].N_ = arr[1].n0_ + (arr[1].n_[1] - 1) * arr[1].B_ + UpperItems(arr[1], 2)
    ELSE arr[1].N_ = UpperItems(arr[1], 2)

\* C6 witness: pops have emptied Level[1] while Level[2] holds blocks, and a
\* later state has a partial last block beside blocks produced by a split
C6_Witness ==
    /\ arr[1].n_[2] > 0
    /\ arr[1].n_[1] = arr[1].B_
    /\ arr[1].n0_ = arr[1].B_ - 1

\* the capacities of the blocks held in the slots of a level spine, summed
RECURSIVE SpineCapacity(_, _)
SpineCapacity(d, s) ==
    IF s > Capacity(d) THEN 0 ELSE Len(d.data[s].data) + SpineCapacity(d, s + 1)

RECURSIVE TotalCapacity(_, _)
TotalCapacity(c, k) ==
    IF k >= R THEN 0 ELSE SpineCapacity(c.levels_[k], 1) + TotalCapacity(c, k + 1)

\* C7 (Spec): between public operations every block held by a level k has
\* capacity B^k and every slot of it has been written, except that the last
\* Level[1] block has its first n0 slots written; no slot holds a deleted
\* block; the capacities sum to N + (B - n0) when n[1] > 0 and to N otherwise.
C7_BlocksFullAndSized ==
    /\ \A k \in 1..(R - 1) : \A s \in 1..Capacity(arr[1].levels_[k]) :
          LET b == arr[1].levels_[k].data[s] IN
          /\ b.st # "freed"
          /\ (b.st = "live") =>
                (/\ Len(b.data) = power(arr[1].B_, k)
                 /\ \A q \in 1..Len(b.data) :
                       (k = 1 /\ s = arr[1].n_[1] /\ q > arr[1].n0_)
                       \/ b.data[q] # Indeterminate)
    /\ TotalCapacity(arr[1], 1) =
          IF arr[1].n_[1] > 0 THEN arr[1].N_ + (arr[1].B_ - arr[1].n0_) ELSE arr[1].N_

\* C7 witness: blocks at Level[2] made by combine, and a partial last Level[1] block
C7_Witness ==
    /\ arr[1].n_[2] > 1
    /\ arr[1].n_[1] > 1
    /\ arr[1].n0_ < arr[1].B_
    /\ arr[1].levels_[2].data[2].st = "live"

\* C8 as claimed (Spec): at rest every level k >= 1 has n[k] <= 2B - 1
C8_Original ==
    \A k \in 1..(R - 1) : arr[1].n_[k] <= 2 * arr[1].B_ - 1

\* C8 amended (Spec): at rest every level k >= 1 has 0 <= n[k] <= 2B; the
\* value 2B is observable between public calls (n[1] = 2B with n0 = B after
\* 2 * B * B appends), the combine being left to the next append.
C8_CountsAtMostTwoB ==
    \A k \in 1..(R - 1) : arr[1].n_[k] >= 0 /\ arr[1].n_[k] <= 2 * arr[1].B_

\* C8 witness: n[1] = 2B at rest, the last block full
C8_Witness ==
    /\ arr[1].n_[1] = 2 * arr[1].B_
    /\ arr[1].n0_ = arr[1].B_
    /\ res = Returned

\* C9 (SpecCM): I5 for every container, however constructed, copied, moved,
\* appended to and popped from: N <= B^R.
C9_AtMostBToTheR ==
    \A c \in Cids : arr[c].N_ <= power(arr[c].B_, R)

\* C9 witness: a copy of a container that went through the rebuild-up, and
\* a container filled to exactly B^R
C9_Witness ==
    /\ arr[1].N_ = power(arr[1].B_, R)
    /\ arr[2].B_ = 2 * INITIAL_B
    /\ arr[2].N_ = power(INITIAL_B, R) + 1
    /\ arr[2].levels_ # NULLPTR

\* C10 as claimed (SpecCM): I6 for every container reachable through the
\* public operations, moved-from containers and their copies included:
\* B > INITIAL_B implies N >= (B / 4)^R.
C10_AtLeastQuarterBToTheR ==
    \A c \in Cids :
        arr[c].B_ > INITIAL_B => arr[c].N_ >= power(arr[c].B_ \div 4, R)

\* b is INITIAL_B times a power of two
RECURSIVE TimesPowerOfTwo(_)
TimesPowerOfTwo(b) ==
    \/ b = INITIAL_B
    \/ b > INITIAL_B /\ b % 2 = 0 /\ TimesPowerOfTwo(b \div 2)

\* what a step of append, pop, at or set does to B
BStepsByRebuild ==
    /\ Grow(1, Plain(arr[1].N_)) =>
          arr'[1].B_ = IF arr[1].N_ = power(arr[1].B_, R)
                       THEN 2 * arr[1].B_ ELSE arr[1].B_
    /\ Shrink(1) =>
          arr'[1].B_ = IF arr[1].B_ >= 2 * INITIAL_B
                          /\ arr[1].N_ = power(arr[1].B_ \div 4, R)
                       THEN arr[1].B_ \div 2 ELSE arr[1].B_
    /\ (\E i \in Probes(1) : Get(1, i) \/ Set(1, i, Plain(i))) =>
          arr'[1].B_ = arr[1].B_

\* C11 (Spec): in every reachable state B = INITIAL_B * 2^j for some j >= 0;
\* an append entered with N = B^R doubles B, a pop entered with B >= 8 and
\* N = (B/4)^R halves it, and every other append, pop, at and set leaves B
\* as it was.
C11_BChangesOnlyByRebuild ==
    /\ [](TimesPowerOfTwo(arr[1].B_) /\ arr[1].B_ >= INITIAL_B)
    /\ [][BStepsByRebuild]_vars

\* C11 witness: B has doubled, and pops have brought N down to (B/4)^R, where
\* the next pop halves B
C11_Witness ==
    /\ res = Returned
    /\ arr[1].B_ = 2 * INITIAL_B
    /\ arr[1].N_ = power(arr[1].B_ \div 4, R)

\* C12 (SpecData): in every reachable state with N = B^R an append returns
\* with B doubled, N = B_old^R + 1 <= (2 B_old)^R, the appended value at the
\* end and at(i) unchanged for every earlier i; and every container holding
\* INITIAL_B^R + 1 = 65 elements (the one made by 65 appends to an empty
\* container among them) has B = 8 and at(i) the i-th value for all i < 65.
C12_RebuildUp ==
    /\ growRebuilds(arr[1]) =>
          \A item \in {Plain(arr[1].N_), 0 - Plain(arr[1].N_)} :
              LET x == grow(Ctx(arr[1]), item) IN
              /\ x.exc = "none"
              /\ x.c.B_ = 2 * arr[1].B_
              /\ x.c.N_ = power(arr[1].B_, R) + 1
              /\ x.c.N_ <= power(x.c.B_, R)
              /\ get(x.c, arr[1].N_).exc = "none" /\ At(x.c, arr[1].N_) = item
              /\ \A i \in 0..(arr[1].N_ - 1) :
                    get(x.c, i).exc = "none" /\ At(x.c, i) = At(arr[1], i)
    /\ arr[1].N_ = power(INITIAL_B, R) + 1 =>
          /\ arr[1].B_ = 2 * INITIAL_B
          /\ Len(ref[1]) = arr[1].N_
          /\ \A i \in 0..(arr[1].N_ - 1) :
                get(arr[1], i).exc = "none" /\ At(arr[1], i) = ref[1][i + 1]

\* C12 witness: the append entered with N = B^R has returned, the
\* distinguished element stored before it
C12_Witness ==
    /\ res = Returned
    /\ arr[1].N_ = power(INITIAL_B, R) + 1
    /\ arr[1].B_ = 2 * INITIAL_B
    /\ \E i \in 0..(power(INITIAL_B, R) - 1) :
          ref[1][i + 1] < 0 /\ At(arr[1], i) = ref[1][i + 1]

\* C13 (SpecData): in every reachable state with B >= 2 * INITIAL_B and
\* N = (B/4)^R a pop returns with B halved and N = (B_old/4)^R - 1, and
\* at(i) is unchanged for every remaining i.
C13_RebuildDown ==
    (arr[1].B_ >= 2 * INITIAL_B /\ arr[1].N_ = power(arr[1].B_ \div 4, R)) =>
        LET x == shrink(Ctx(arr[1])) IN
        /\ x.exc = "none"
        /\ x.c.B_ = arr[1].B_ \div 2
        /\ x.c.N_ = power(arr[1].B_ \div 4, R) - 1
        /\ \A i \in 0..(x.c.N_ - 1) :
              get(x.c, i).exc = "none" /\ At(x.c, i) = At(arr[1], i)

\* C13 witness: a pop is entered with B = 8 and N = (B/4)^R, the
\* distinguished element among those that remain
C13_Witness ==
    /\ shrinkRebuilds(arr[1])
    /\ \E i \in 0..(arr[1].N_ - 2) : ref[1][i + 1] < 0 /\ At(arr[1], i) = ref[1][i + 1]

\* the constant c of the capacity bound: it depends on INITIAL_B only
SlackFactor == INITIAL_B

\* C14 (Spec): in every state reached by appends and pops the capacities of
\* all blocks sum to at most N + c * N^(1/R) with c = INITIAL_B, that is
\* (capacity - N)^R <= c^R * N.
C14_CapacityBound ==
    /\ TotalCapacity(arr[1], 1) >= arr[1].N_
    /\ power(TotalCapacity(arr[1], 1) - arr[1].N_, R) <= power(SlackFactor, R) * arr[1].N_

\* C14 witness: B = 8 and N one above (B/4)^R, the last block holding one element
C14_Witness ==
    /\ arr[1].B_ = 2 * INITIAL_B
    /\ arr[1].N_ = power(arr[1].B_ \div 4, R) + 1
    /\ TotalCapacity(arr[1], 1) - arr[1].N_ = arr[1].B_ - 1

\* C15 (Spec): for every i < N locateItem(i) and get(i) resolve i alike:
\* locateItem returns the level of the block get reads, and its offset
\* divided by B^level is the block index, its remainder the slot.
C15_LocateMatchesGet ==
    \A i \in 0..(arr[1].N_ - 1) :
        LET loc == locateItem(arr[1], i)
            pl == get(arr[1], i)
        IN /\ loc.exc = "none"
           /\ pl.exc = "none"
           /\ loc.lvl = pl.lvl
           /\ loc.off \div power(arr[1].B_, loc.lvl) = pl.b
           /\ loc.off % power(arr[1].B_, loc.lvl) = pl.off

\* C15 witness: indices resolved in the second Level[2] block, in a full
\* Level[1] block and in the partial last Level[1] block
C15_Witness ==
    /\ arr[1].n0_ < arr[1].B_
    /\ \E i \in 0..(arr[1].N_ - 1) :
          locateItem(arr[1], i).lvl = 2 /\ get(arr[1], i).b = 1
    /\ \E i \in 0..(arr[1].N_ - 1) :
          locateItem(arr[1], i).lvl = 1 /\ get(arr[1], i).b = 0 /\ arr[1].n_[1] > 1
    /\ \E i \in 0..(arr[1].N_ - 1) :
          locateItem(arr[1], i).lvl = 1 /\ get(arr[1], i).b = arr[1].n_[1] - 1

\* the containers after 2 * B * B appends to an empty one, and after one more
FilledBeforeCombine == Filled(2 * INITIAL_B * INITIAL_B)
FilledAfterCombine == Filled(2 * INITIAL_B * INITIAL_B + 1)

\* the number of live blocks in the slots of a level spine
LiveBlocks(d) == Cardinality({s \in 1..Capacity(d) : d.data[s].st = "live"})

\* C16 (Spec): the container made by 2 * B * B = 32 appends to an empty one
\* has an empty Level[2], n[1] = 2B and n0 = B, and so has had every shorter
\* one; the 33rd append combines once: one block of capacity B^2 at
\* Level[2], n[1] = B + 1, len() = 33 and at(i) the i-th appended value.
C16_FirstCombine ==
    arr[1] = FilledBeforeCombine =>
        /\ \A k \in 0..(2 * INITIAL_B * INITIAL_B) :
              Filled(k).n_[2] = 0 /\ LiveBlocks(Filled(k).levels_[2]) = 0
        /\ arr[1].n_[1] = 2 * INITIAL_B
        /\ arr[1].n0_ = INITIAL_B
        /\ growCombines(arr[1])
        /\ LET x == grow(Ctx(arr[1]), Plain(arr[1].N_)) IN
           /\ x.exc = "none"
           /\ x.c.N_ = 2 * INITIAL_B * INITIAL_B + 1
           /\ x.c.n_[2] = 1
           /\ x.c.levels_[2].size = 1
           /\ LiveBlocks(x.c.levels_[2]) = 1
           /\ Len(x.c.levels_[2].data[1].data) = INITIAL_B * INITIAL_B
           /\ x.c.n_[1] = INITIAL_B + 1
           /\ \A i \in 0..(x.c.N_ - 1) :
                 get(x.c, i).exc = "none" /\ At(x.c, i) = Plain(i)

\* C16 witness: the 33rd append to an empty container has returned
C16_Witness ==
    /\ res = Returned
    /\ arr[1] = FilledAfterCombine
    /\ arr[1].n_[2] = 1
    /\ ref[1] = [i \in 1..(2 * INITIAL_B * INITIAL_B + 1) |-> Plain(i - 1)]

\* container c holds the elements of its reference sequence
Matches(c) ==
    /\ Len(ref[c]) = arr[c].N_
    /\ \A i \in 0..(arr[c].N_ - 1) :
          get(arr[c], i).exc = "none" /\ At(arr[c], i) = ref[c][i + 1]

\* container x.c, the outcome of a copy, has the len() and every at(i) of src
CopyOf(x, src) ==
    /\ x.exc = "none"
    /\ x.c.N_ = src.N_
    /\ \A i \in 0..(src.N_ - 1) :
          get(x.c, i).exc = "none" /\ At(x.c, i) = At(src, i)

\* C17 (SpecCopy): in every reachable state a copy construction from, and a
\* copy assignment of, either container returns a container with the len()
\* and every at(i) of the source (which both take by const reference); and
\* each of the two containers holds exactly what its own copies, sets,
\* appends and pops made of it, whatever was done to the other since.
C17_CopiesAreIndependent ==
    /\ \A c \in Cids : Matches(c)
    /\ \A dst \in Cids : \A src \in Cids \ {dst} :
          /\ CopyOf(CopyConstructor(arr[src], NoFail), arr[src])
          /\ CopyOf(CopyAssignment(Ctx(arr[dst]), arr[src]), arr[src])

\* C17 witness: copy and source both past the rebuild-up threshold region,
\* the first element of the copy overwritten, every other position equal
C17_Witness ==
    /\ res = Returned
    /\ arr[1].N_ >= HighN
    /\ arr[2].N_ = arr[1].N_
    /\ ref[1][1] > 0
    /\ ref[2][1] < 0
    /\ At(arr[2], 0) = ref[2][1]
    /\ At(arr[1], 0) = ref[1][1]
    /\ \A i \in 1..(arr[1].N_ - 1) : At(arr[1], i) = At(arr[2], i)

\* container d takes one more append
UsableForAppend(d) ==
    LET y == grow(Ctx(d), Plain(d.N_)) IN
    /\ y.exc = "none"
    /\ y.c.N_ = d.N_ + 1
    /\ get(y.c, d.N_).exc = "none" /\ At(y.c, d.N_) = Plain(d.N_)
    /\ \A i \in 0..(d.N_ - 1) : get(y.c, i).exc = "none" /\ At(y.c, i) = At(d, i)

\* container d has the len(), B and every at(i) of src
SameContent(d, src) ==
    /\ d.N_ = src.N_
    /\ d.B_ = src.B_
    /\ \A i \in 0..(src.N_ - 1) : get(d, i).exc = "none" /\ At(d, i) = At(src, i)

\* a move from src into dst, by construction and by assignment: the
\* destination has the former content of src and takes a further append,
\* the source is left with len() = 0 and at(0) out of range
MoveTransfers(dst, src) ==
    LET x == MoveAssignment(Ctx(arr[dst]), arr[src]) IN
    /\ x.exc = "none"
    /\ \A d \in {MoveConstructor(arr[src]), x.c} :
          SameContent(d, arr[src]) /\ UsableForAppend(d)
    /\ MovedFrom(arr[src]).N_ = 0
    /\ get(MovedFrom(arr[src]), 0).exc = "out_of_range"

\* C18 as claimed (SpecCM): in every reachable state, for either container
\* as the source, move construction and move assignment give the
\* destination the source's len(), B and every at(i), leave the source with
\* len() = 0 and at(0) out of range, and the destination takes further appends.
C18_MoveTransfers ==
    \A dst \in Cids : \A src \in Cids \ {dst} : MoveTransfers(dst, src)

\* the same for sources that have not been moved from themselves
MoveTransfersFromInitialised ==
    \A dst \in Cids : \A src \in Cids \ {dst} :
        (arr[src].levels_ # NULLPTR /\ arr[src].n_ # NULLPTR) => MoveTransfers(dst, src)

\* C19 as claimed (SpecCM): a container left behind by a move (its members
\* levels_ and n_ are null) behaves as an empty container: an append
\* returns and yields len() = 1 and at(0) = x, a pop throws out_of_range.
C19_MovedFromUsable ==
    \A c \in Cids :
        (arr[c].levels_ = NULLPTR \/ arr[c].n_ = NULLPTR) =>
            /\ arr[c].N_ = 0
            /\ shrink(Ctx(arr[c])).exc = "out_of_range"
            /\ get(arr[c], 0).exc = "out_of_range"
            /\ UsableForAppend(arr[c])

\* a self-assignment changes nothing of either container
SelfAssignmentKeeps ==
    \A c \in Cids :
        (CopyAssign(c, c) \/ MoveAssign(c, c)) =>
            /\ res' = ReturnedSelf
            /\ arr' = arr
            /\ ref' = ref

\* C20 (SpecCM): copy-assigning or move-assigning a container to itself
\* returns at once: len(), B, every element, the counters and the blocks of
\* both containers are what they were.
C20_SelfAssignmentIsNoOp ==
    [][SelfAssignmentKeeps]_vars

\* C20 witness: a self-assignment of a container holding combined blocks
\* has returned
C20_Witness ==
    /\ res = ReturnedSelf
    /\ \E c \in Cids : arr[c].levels_ # NULLPTR /\ arr[c].n_[2] > 0 /\ Matches(c)

\* --------------------------------------------------------- failure injection
\* I3 of a container c
CountersI3(c) ==
    IF c.n_[1] > 0
    THEN c.N_ = c.n0_ + (c.n_[1] - 1) * c.B_ + UpperItems(c, 2)
    ELSE c.N_ = UpperItems(c, 2)

\* the strong guarantee: c, left behind by a call that threw, has the N and
\* the at(i) of the container before the call, and its counters satisfy I3
Restored(c, before) ==
    /\ c.levels_ # NULLPTR /\ c.n_ # NULLPTR
    /\ c.N_ = before.N_
    /\ \A i \in 0..(before.N_ - 1) :
          get(c, i).exc = "none" /\ At(c, i) = At(before, i)
    /\ CountersI3(c)

\* C21 as claimed (Spec): in every state, an append in which an allocation
\* fails (after 0..MaxFuel successful ones: the new Level[1] block, the big
\* block of a combine, the buffer, the spines or a re-append of a rebuild-up)
\* leaves N, every at(i) and I3 as they were before the call.
C21_AppendStrongGuarantee ==
    \A fuel \in 0..MaxFuel :
        LET x == grow(Failing(arr[1], fuel), Plain(arr[1].N_)) IN
        x.exc = "bad_alloc" => Restored(x.c, arr[1])

\* the same for the appends that do not rebuild
AppendWithoutRebuildRestores ==
    growRebuilds(arr[1]) \/ C21_AppendStrongGuarantee

\* C22 as claimed (Spec): in every state, a pop in which an allocation fails
\* (after 0..MaxFuel successful ones, inside the split or the rebuild-down it
\* triggers) leaves N, every at(i) and I3 as they were before the call.
C22_PopStrongGuarantee ==
    \A fuel \in 0..MaxFuel :
        LET x == shrink(Failing(arr[1], fuel)) IN
        x.exc = "bad_alloc" => Restored(x.c, arr[1])

\* C23 as claimed (SpecCM): a copy assignment into a non-empty destination in
\* which an allocation fails (after 0..MaxFuel successful ones) leaves the
\* destination with its len(), its B and its at(i) of before the assignment.
C23_CopyAssignStrongGuarantee ==
    \A dst \in Cids : \A src \in Cids \ {dst} : \A fuel \in 0..MaxFuel :
        LET x == CopyAssignment(Failing(arr[dst], fuel), arr[src]) IN
        (arr[dst].N_ > 0 /\ x.exc = "bad_alloc") =>
            (Restored(x.c, arr[dst]) /\ x.c.B_ = arr[dst].B_)

\* C24 as claimed (Spec): when an allocation fails (after 0..MaxFuel
\* successful ones) inside the combine, the split or the rebuild of an append
\* or a pop, no heap object is left without an owner: no detached big block,
\* no temporary array of small blocks, no rebuild buffer.
C24_NoLeakOnFailure ==
    \A fuel \in 0..MaxFuel :
        LET g == grow(Failing(arr[1], fuel), Plain(arr[1].N_))
            s == shrink(Failing(arr[1], fuel))
        IN /\ g.exc = "bad_alloc" => g.lost = 0
           /\ s.exc = "bad_alloc" => s.lost = 0

\* the same for appends and pops that neither split nor rebuild
CombineFailureLeaksNothing ==
    (growCombines(arr[1]) /\ ~growRebuilds(arr[1])) =>
        \A fuel \in 0..MaxFuel :
            LET g == grow(Failing(arr[1], fuel), Plain(arr[1].N_)) IN
            g.exc = "bad_alloc" => g.lost = 0

\* ------------------------------------------------------- combine and split
\* the append of this state runs the combine
Combining(c) == growCombines(c) /\ ~growRebuilds(c)

\* C25 as claimed (SpecDeep): the combine an append runs, with k the smallest
\* level with n[k] < 2B, leaves every level below k with exactly B blocks (it
\* had 2B) and Level[k] with one block more.
C25_Original ==
    Combining(arr[1]) =>
        LET k == combineFindK(arr[1], 1)
            x == combineBlocks(Ctx(arr[1]))
        IN /\ k >= 2
           /\ \A i \in 1..(k - 1) : arr[1].n_[i] = 2 * arr[1].B_ /\ x.c.n_[i] = arr[1].B_
           /\ x.c.n_[k] = arr[1].n_[k] + 1

\* C25 amended (SpecDeep, R = 3 and R = 4): the combine an append runs, with
\* k the smallest level with n[k] < 2B, finds every level below k at 2B
\* blocks and returns with Level[1] at exactly B blocks, every level i in
\* 2..k-1 at B + 1 blocks (reduced to B, then given the big block made of B
\* blocks of level i - 1), Level[k] with one block more and the levels above
\* k as they were; every level spine holds as many blocks as its counter says.
C25_CombinePostCondition ==
    Combining(arr[1]) =>
        LET k == combineFindK(arr[1], 1)
            x == combineBlocks(Ctx(arr[1]))
        IN /\ k >= 2
           /\ x.exc = "none"
           /\ \A i \in 1..(k - 1) : arr[1].n_[i] = 2 * arr[1].B_
           /\ x.c.n_[1] = arr[1].B_
           /\ \A i \in 2..(k - 1) : x.c.n_[i] = arr[1].B_ + 1
           /\ x.c.n_[k] = arr[1].n_[k] + 1
           /\ \A i \in (k + 1)..(R - 1) : x.c.n_[i] = arr[1].n_[i]
           /\ \A i \in 1..(R - 1) : x.c.levels_[i].size = x.c.n_[i]

\* C25 witness: the append that followed a combine with k = 3 has returned:
\* Level[3] holds its first block, Level[2] B + 1 blocks, Level[1] the B
\* blocks the combine left and the new one
C25_Witness ==
    /\ res = Returned
    /\ R = DeepR
    /\ arr[1].n_[3] = 1
    /\ arr[1].n_[2] = arr[1].B_ + 1
    /\ arr[1].n_[1] = arr[1].B_ + 1
    /\ arr[1].n0_ = 1
    /\ arr[1].N_ = 2 * arr[1].B_ * (arr[1].B_ + power(arr[1].B_, 2)) + 1

\* the pop of this state runs the split
Splitting(c) == c.N_ > 0 /\ ~shrinkRebuilds(c) /\ c.n_[1] = 0

\* C26 as claimed (SpecDeep): the split a pop runs, from the smallest level
\* k >= 2 with n[k] > 0, produces exactly one block at every level k-1..2
\* and exactly B blocks at Level[1].
C26_Original ==
    Splitting(arr[1]) =>
        LET k == splitFindK(arr[1], 2)
            x == splitBlocks(Ctx(arr[1]))
        IN /\ k >= 2
           /\ x.exc = "none"
           /\ \A i \in 2..(k - 1) : x.c.n_[i] = arr[1].n_[i] + 1
           /\ x.c.n_[1] = arr[1].n_[1] + arr[1].B_

\* C26 amended (SpecDeep, R = 3 and R = 4): the split a pop runs, from the
\* smallest level k >= 2 with n[k] > 0, finds the levels below k empty and
\* produces exactly B - 1 blocks at every level k-1..2 and exactly B blocks
\* at Level[1]; every block it produces at level i has capacity B^i.
C26_SplitProduces ==
    Splitting(arr[1]) =>
        LET k == splitFindK(arr[1], 2)
            x == splitBlocks(Ctx(arr[1]))
        IN /\ k >= 2
           /\ x.exc = "none"
           /\ \A i \in 1..(k - 1) : arr[1].n_[i] = 0
           /\ \A i \in 2..(k - 1) : x.c.n_[i] = arr[1].B_ - 1
           /\ x.c.n_[1] = arr[1].B_
           /\ \A i \in 1..(k - 1) :
                 /\ x.c.levels_[i].size = x.c.n_[i]
                 /\ \A j \in 1..x.c.n_[i] :
                       Readable(x.c.levels_[i].data[j], power(arr[1].B_, i))

\* C26 witness: the pop that split the only Level[3] block has returned:
\* B - 1 blocks at Level[2], B blocks at Level[1], the last of them short of
\* the popped element
C26_Witness ==
    /\ res = Returned
    /\ R = DeepR
    /\ arr[1].N_ = power(arr[1].B_, 3) - 1
    /\ arr[1].n_[3] = 0
    /\ arr[1].n_[2] = arr[1].B_ - 1
    /\ arr[1].n_[1] = arr[1].B_
    /\ arr[1].n0_ = arr[1].B_ - 1

\* C27 (SpecDeep, R = 3 and R = 4): a pop of a non-empty container runs the
\* split exactly when n[1] = 0 after its rebuild-down step and before the
\* element is removed; the split takes exactly the last block off Level[k]
\* (k the smallest level >= 2 with n[k] > 0, the blocks before it stay),
\* adds exactly B - 1 blocks to every level k-1..2 and exactly B blocks to
\* Level[1], and leaves n0 = B; the decrement that follows gives n0 = B - 1.
C27_PopSplits ==
    arr[1].N_ > 0 =>
        LET a == shrinkMembers(shrinkRebuild(Ctx(arr[1])))
            b == shrinkSplit(a)
            k == splitFindK(a.c, 2)
        IN /\ a.exc = "none"
           /\ a.c.n_[1] # 0 => b = a
           /\ a.c.n_[1] = 0 =>
                 /\ b = splitBlocks(a)
                 /\ b.exc = "none"
                 /\ k >= 2
                 /\ b.c.n_[k] = a.c.n_[k] - 1
                 /\ b.c.levels_[k].size = a.c.levels_[k].size - 1
                 /\ \A j \in 1..b.c.n_[k] :
                       b.c.levels_[k].data[j] = a.c.levels_[k].data[j]
                 /\ \A i \in (k + 1)..(R - 1) : b.c.levels_[i] = a.c.levels_[i]
                 /\ \A i \in 2..(k - 1) : b.c.n_[i] = a.c.n_[i] + (a.c.B_ - 1)
                 /\ b.c.n_[1] = a.c.n_[1] + a.c.B_
                 /\ b.c.n0_ = a.c.B_
                 /\ shrinkCount(b).c.n0_ = a.c.B_ - 1

\* C27 witness: the pop that split a Level[2] block below a Level[3] block
\* has returned
C27_Witness ==
    /\ res = Returned
    /\ R = DeepR
    /\ arr[1].n_[3] = 1
    /\ arr[1].n_[2] = arr[1].B_
    /\ arr[1].n_[1] = arr[1].B_
    /\ arr[1].n0_ = arr[1].B_ - 1
    /\ arr[1].N_ = power(arr[1].B_, 3) + arr[1].B_ * power(arr[1].B_, 2)
                     + arr[1].B_ * arr[1].B_ - 1

\* the contents of the blocks in the slots from..to of a level spine, in order
RECURSIVE SpineItems(_, _, _)
SpineItems(d, from, to) ==
    IF from > to THEN <<>> ELSE d.data[from].data \o SpineItems(d, from + 1, to)

\* the blocks of Level[k], ..., Level[2] concatenated, each level in order
RECURSIVE UpperSeq(_, _)
UpperSeq(c, k) ==
    IF k < 2 THEN <<>>
    ELSE SpineItems(c.levels_[k], 1, c.n_[k]) \o UpperSeq(c, k - 1)

\* the blocks of Level[1], the last of them truncated to n0
Level1Seq(c) ==
    IF c.n_[1] = 0 THEN <<>>
    ELSE SpineItems(c.levels_[1], 1, c.n_[1] - 1)
         \o SubSeq(c.levels_[1].data[c.n_[1]].data, 1, c.n0_)

\* the logical sequence of a container
LogicalSeq(c) == UpperSeq(c, R - 1) \o Level1Seq(c)

\* C28 (SpecDeep, R = 3 and R = 4): the combine an append runs and the split
\* a pop runs return with N unchanged and with the logical sequence (the
\* blocks of Level[r-1] ... Level[1] concatenated, the last Level[1] block
\* truncated to n0) identical element for element, and so every at(i); the
\* block the combine appended last to Level[k] is the first B blocks of
\* Level[k-1] in order, and the block the split took off Level[k] is, slice
\* by slice, the sequence of the blocks it put on the levels below.
C28_CombineSplitKeepSequence ==
    /\ Combining(arr[1]) =>
          LET k == combineFindK(arr[1], 1)
              x == combineBlocks(Ctx(arr[1]))
          IN /\ x.exc = "none"
             /\ x.c.N_ = arr[1].N_
             /\ Len(LogicalSeq(arr[1])) = arr[1].N_
             /\ LogicalSeq(x.c) = LogicalSeq(arr[1])
             /\ \A i \in 0..(arr[1].N_ - 1) : At(x.c, i) = LogicalSeq(arr[1])[i + 1]
             /\ x.c.levels_[k].data[x.c.n_[k]].data =
                   SpineItems(arr[1].levels_[k - 1], 1, arr[1].B_)
    /\ Splitting(arr[1]) =>
          LET k == splitFindK(arr[1], 2)
              x == splitBlocks(Ctx(arr[1]))
          IN /\ x.exc = "none"
             /\ x.c.N_ = arr[1].N_
             /\ Len(LogicalSeq(arr[1])) = arr[1].N_
             /\ LogicalSeq(x.c) = LogicalSeq(arr[1])
             /\ \A i \in 0..(arr[1].N_ - 1) : At(x.c, i) = LogicalSeq(arr[1])[i + 1]
             /\ arr[1].levels_[k].data[arr[1].n_[k]].data =
                   UpperSeq(x.c, k - 1) \o Level1Seq(x.c)

\* C28 witness: two combines and a split behind it (49 appends, 18 pops), the
\* container holds the appended sequence
C28_Witness ==
    /\ res = Returned
    /\ R = DefaultR
    /\ arr[1].B_ = INITIAL_B
    /\ arr[1].N_ = 2 * power(INITIAL_B, 2) - 1
    /\ arr[1].n_[2] = 1
    /\ arr[1].n_[1] = INITIAL_B
    /\ arr[1].n0_ = INITIAL_B - 1
    /\ LogicalSeq(arr[1]) = ref[1]

\* ------------------------------------------------------ internal failures
\* C29 (SpecDeep, R = 3 and R = 4): from a default-constructed container, no
\* append or pop ends in an internal error (std::runtime_error or undefined
\* behaviour, also not inside the re-appends of a rebuild); in every state
\* some level k has n[k] < 2B, so the combine an append runs finds its k;
\* the split a pop runs finds a level k >= 2 with n[k] > 0; and for every
\* i < N get(i) returns an element, never 'n1==0' or 'past n0', and set(i, v)
\* returns leaving the counters as they were.
C29_NoInternalFailure ==
    /\ NoInternalError
    /\ \E k \in 1..(R - 1) : arr[1].n_[k] < 2 * arr[1].B_
    /\ Combining(arr[1]) =>
          /\ combineFindK(arr[1], 1) \in 1..(R - 1)
          /\ combineBlocks(Ctx(arr[1])).exc = "none"
    /\ Splitting(arr[1]) =>
          /\ splitFindK(arr[1], 2) \in 2..(R - 1)
          /\ splitBlocks(Ctx(arr[1])).exc = "none"
    /\ \A i \in 0..(arr[1].N_ - 1) :
          /\ get(arr[1], i).exc = "none"
          /\ LET x == set(Ctx(arr[1]), i, 0 - Plain(i)) IN
             /\ x.exc = "none"
             /\ x.c.N_ = arr[1].N_ /\ x.c.B_ = arr[1].B_
             /\ x.c.n_ = arr[1].n_ /\ x.c.n0_ = arr[1].n0_

\* C29 witness: R = 4, the append at N = B^R has rebuilt to 2B (no level had
\* reached 2B blocks on all levels) and returned, and the last element is read
C29_Witness ==
    /\ res = Returned
    /\ R = DeepR
    /\ arr[1].B_ = 2 * INITIAL_B
    /\ arr[1].N_ = power(INITIAL_B, R) + 1
    /\ get(arr[1], arr[1].N_ - 1).exc = "none"

\* ------------------------------------------------------- the steps of append
\* C30 (SpecDeep, R = 3 and R = 4): in every state whose append runs the
\* combine or the rebuild-up, the container after these steps has its last
\* Level[1] block full (n0 = B), the same call allocates a fresh Level[1]
\* block, leaves the full block as it is, writes x at offset 0 of the fresh
\* block and returns with n0 = 1; and no append of any state writes past the
\* capacity of a block: it returns with 1 <= n0 <= B = the capacity of the
\* last Level[1] block and x at offset n0 - 1 of it.
C30_AppendStepsSequential ==
    LET item == 0 - Plain(arr[1].N_)
        a == growCombine(growMembers(growRebuild(Ctx(arr[1]))))
        x == grow(Ctx(arr[1]), item)
    IN /\ x.exc = "none"
       /\ x.c.n0_ >= 1 /\ x.c.n0_ <= x.c.B_
       /\ Len(x.c.levels_[1].data[x.c.n_[1]].data) = x.c.B_
       /\ x.c.levels_[1].data[x.c.n_[1]].data[x.c.n0_] = item
       /\ (Combining(arr[1]) \/ growRebuilds(arr[1])) =>
             /\ a.exc = "none"
             /\ a.c.n0_ = a.c.B_
             /\ a.c.n_[1] > 0
             /\ growAllocates(a.c)
             /\ x.c.n_[1] = a.c.n_[1] + 1
             /\ x.c.levels_[1].data[a.c.n_[1]] = a.c.levels_[1].data[a.c.n_[1]]
             /\ x.c.n0_ = 1

\* C30 witness: the 33rd append has combined, allocated a block and stored
\* its element at offset 0 of it
C30_Witness ==
    /\ res = Returned
    /\ R = DefaultR
    /\ arr[1].N_ = 2 * INITIAL_B * INITIAL_B + 1
    /\ arr[1].n_[2] = 1
    /\ arr[1].n_[1] = INITIAL_B + 1
    /\ arr[1].n0_ = 1
    /\ arr[1].levels_[1].data[arr[1].n_[1]].data[1] = ref[1][arr[1].N_]

\* ------------------------------------------------------------ n0 at rest
\* C31 (SpecDeep, R = 3 and R = 4): between public operations 0 <= n0 <= B
\* and n0 = 0 exactly when n[1] = 0; a pop whose decrement empties the last
\* Level[1] block releases that block (n[1] and the spine size go down by
\* one, the slot is vacated) and returns with n0 = B if a Level[1] block
\* remains and n0 = 0 otherwise; a pop that does not empty it keeps n[1].
C31_N0AtRest ==
    /\ arr[1].n0_ >= 0 /\ arr[1].n0_ <= arr[1].B_
    /\ (arr[1].n0_ = 0) <=> (arr[1].n_[1] = 0)
    /\ arr[1].N_ > 0 =>
          LET b == shrinkCount(shrinkSplit(shrinkMembers(shrinkRebuild(Ctx(arr[1])))))
              x == shrink(Ctx(arr[1]))
          IN /\ x.exc = "none"
             /\ b.c.n0_ # 0 => (x.c.n_[1] = b.c.n_[1] /\ x.c.n0_ = b.c.n0_)
             /\ b.c.n0_ = 0 =>
                   /\ x.c.n_[1] = b.c.n_[1] - 1
                   /\ x.c.levels_[1].size = b.c.levels_[1].size - 1
                   /\ x.c.levels_[1].data[b.c.n_[1]] = NullBlock
                   /\ x.c.n0_ = IF x.c.n_[1] > 0 THEN x.c.B_ ELSE 0

\* C31 witness: the pop after the 33rd append has released the block that
\* append allocated: B full Level[1] blocks remain beside the Level[2] block
C31_Witness ==
    /\ res = Returned
    /\ R = DefaultR
    /\ arr[1].B_ = INITIAL_B
    /\ arr[1].N_ = 2 * INITIAL_B * INITIAL_B
    /\ arr[1].n_[2] = 1
    /\ arr[1].n_[1] = INITIAL_B
    /\ arr[1].n0_ = INITIAL_B

\* ------------------------------------------------------------------ rebuild
\* the block sizes rebuild is called with: INITIAL_B times a power of two
NewBs == {INITIAL_B, 2 * INITIAL_B, 4 * INITIAL_B}

\* I1 - I5 of a container c (I4 with the bound 2B): the blocks a level
\* counts are live and of capacity B^k, the spine holds as many as the
\* counter says, I3, n[k] <= 2B, 0 <= n0 <= B, N <= B^R
InvariantsI1ToI5(c) ==
    /\ \A k \in 1..(R - 1) :
          /\ c.n_[k] >= 0 /\ c.n_[k] <= 2 * c.B_
          /\ c.levels_[k].size = c.n_[k]
          /\ \A j \in 1..c.n_[k] :
                /\ c.levels_[k].data[j].st = "live"
                /\ Len(c.levels_[k].data[j].data) = power(c.B_, k)
    /\ CountersI3(c)
    /\ c.n0_ >= 0 /\ c.n0_ <= c.B_
    /\ c.N_ <= power(c.B_, R)

\* I6 of a container c
InvariantI6(c) == c.B_ > INITIAL_B => c.N_ >= power(c.B_ \div 4, R)

\* x is the result of rebuild(newB) on the container before: N and every
\* at(i) as before, B = newB, I1 - I5, and an append and a pop on it return
\* and add resp. remove the last element only
Rebuilt(x, before, newB) ==
    /\ x.exc = "none"
    /\ x.c.N_ = before.N_
    /\ x.c.B_ = newB
    /\ \A i \in 0..(before.N_ - 1) :
          get(x.c, i).exc = "none" /\ At(x.c, i) = At(before, i)
    /\ InvariantsI1ToI5(x.c)
    /\ LET g == grow(x, 0 - Plain(before.N_)) IN
       /\ g.exc = "none"
       /\ g.c.N_ = before.N_ + 1
       /\ At(g.c, before.N_) = 0 - Plain(before.N_)
       /\ \A i \in 0..(before.N_ - 1) : At(g.c, i) = At(before, i)
    /\ before.N_ > 0 =>
          LET s == shrink(x) IN
          /\ s.exc = "none"
          /\ s.c.N_ = before.N_ - 1
          /\ \A i \in 0..(before.N_ - 2) : At(s.c, i) = At(before, i)

C33_CallsTerminate ==
    /\ LET g == grow(Ctx(arr[1]), Plain(arr[1].N_)) IN
       /\ g.exc = "none"
       /\ g.rebuilds = IF growRebuilds(arr[1]) THEN 1 ELSE 0
       /\ ~growRebuilds(arr[1]) =>
             g.trips = IF growCombines(arr[1]) THEN combineFindK(arr[1], 1) - 1 ELSE 0
    /\ arr[1].N_ > 0 =>
          LET s == shrink(Ctx(arr[1])) IN
          /\ s.exc = "none"
          /\ s.rebuilds = IF shrinkRebuilds(arr[1]) THEN 1 ELSE 0
          /\ ~shrinkRebuilds(arr[1]) =>
                s.trips = IF arr[1].n_[1] = 0 THEN splitFindK(arr[1], 2) - 1 ELSE 0
    /\ LET x == combineBlocks(Ctx(arr[1])) IN
       /\ x.exc = "none"
       /\ combineFindK(arr[1], 1) \in 1..(R - 1)
       /\ x.trips = combineFindK(arr[1], 1) - 1
       /\ combineFindK(arr[1], 1) = 1 => x.c = arr[1]
    /\ Splitting(arr[1]) =>
          LET x == splitBlocks(Ctx(arr[1])) IN
          /\ x.exc = "none"
          /\ x.trips = splitFindK(arr[1], 2) - 1

\* C33 witness: R = 4, the append at N = B^R has returned from its rebuild;
\* the re-appends combined blocks into Level[2] and Level[3] on the way
C33_Witness ==
    /\ res = Returned
    /\ R = DeepR
    /\ arr[1].B_ = 2 * INITIAL_B
    /\ arr[1].N_ = power(INITIAL_B, R) + 1
    /\ arr[1].n_[2] > 0
    /\ arr[1].n0_ = 1

\* ---------------------------------------------------------------- ownership
\* the slots of the container c that hold a handle: <<level, slot>>
Handles(c) ==
    {ls \in (0..(R - 1)) \X (1..(4 * c.B_)) :
        /\ ls[2] <= Capacity(c.levels_[ls[1]])
        /\ c.levels_[ls[1]].data[ls[2]].st # "null"}

\* C34 (SpecDeep, R = 3 and R = 4; every element differs from every other,
\* so a block is known by its first element): between public operations
\* levels[k].size = n[k] for every k, every slot below size holds a live
\* block, every slot at or beyond size is the empty sentinel, no slot holds
\* the handle of a deleted block, no two slots (of the same or of different
\* levels) hold the same block, and the teardown deletes every block once:
\* it meets no deleted block and leaves no handle in any slot.
C34_BlocksOwnedOnce ==
    /\ \A k \in 0..(R - 1) :
          /\ arr[1].levels_[k].size = arr[1].n_[k]
          /\ arr[1].levels_[k].size <= Capacity(arr[1].levels_[k])
          /\ Capacity(arr[1].levels_[k]) <= 4 * arr[1].B_
          /\ \A j \in 1..Capacity(arr[1].levels_[k]) :
                IF j <= arr[1].levels_[k].size
                THEN arr[1].levels_[k].data[j].st = "live"
                ELSE arr[1].levels_[k].data[j] = NullBlock
    /\ \A a \in Handles(arr[1]) : \A b \in Handles(arr[1]) :
          a # b => arr[1].levels_[a[1]].data[a[2]].data[1]
                     # arr[1].levels_[b[1]].data[b[2]].data[1]
    /\ LET x == cleanupLevels(Ctx(arr[1])) IN
       /\ x.exc = "none"
       /\ Handles(x.c) = {}

\* C34 witness: R = 4, after the combine with k = 3 and one more append:
\* the upper B slots of Level[1] and of Level[2] were vacated by the shift
C34_Witness ==
    /\ res = Returned
    /\ R = DeepR
    /\ arr[1].n_[3] = 1
    /\ arr[1].n_[2] = arr[1].B_ + 1
    /\ arr[1].n_[1] = arr[1].B_ + 1
    /\ arr[1].n0_ = 2
    /\ arr[1].levels_[1].data[2 * arr[1].B_] = NullBlock
    /\ arr[1].levels_[2].data[2 * arr[1].B_] = NullBlock

\* C35 as stated: at no point of an append or a pop does a level hold more
\* than 2B blocks or has a spine a capacity below 2B, and no push_back has
\* to reallocate a spine.
C35_Original ==
    /\ grow(Ctx(arr[1]), 0).seen = {}
    /\ shrink(Ctx(arr[1])).seen = {}

\* C35: at every point of an append or a pop each level 1..r-1 holds at
\* most 2B blocks and no push_back has to reallocate a spine; a spine has a
\* capacity below 2B only inside an upward rebuild, between the assignment
\* of the new B and the re-initialisation of the levels, while every level
\* is empty.  A copy assignment (here into a container of LowN elements and
\* B = INITIAL_B) from a container of a larger B passes such a point with
\* its old blocks still held, and its pushes do not reallocate a spine
\* either.
C35_LevelsWithinReservedCapacity ==
    /\ LET g == grow(Ctx(arr[1]), 0) IN
        /\ g.seen \subseteq {"under"}
        /\ ("under" \in g.seen) =>
              /\ growRebuilds(arr[1])
              /\ g.c.B_ = 2 * arr[1].B_
    /\ shrink(Ctx(arr[1])).seen = {}
    /\ (arr[1].N_ <= LowN) =>
          LET a == CopyAssignment(Ctx(Filled(LowN)), arr[1]) IN
          /\ "over" \notin a.seen /\ "grown" \notin a.seen
          /\ ("under_held" \in a.seen) <=> (arr[1].B_ > INITIAL_B)

\* an append that rebuilds upwards has passed the point with spines below 2B
C35_Witness ==
    /\ growRebuilds(arr[1])
    /\ grow(Ctx(arr[1]), 0).seen = {"under"}
    /\ grow(Ctx(arr[1]), 0).c.N_ = arr[1].N_ + 1

\* the call x made a rebuild: it returned, and neither an append nor a pop
\* that follows it makes another one
NoRebuildAfter(x) ==
    x.rebuilds > 0 =>
        /\ x.rebuilds = 1
        /\ Running(x)
        /\ grow(Ctx(x.c), 0).rebuilds = 0
        /\ shrink(Ctx(x.c)).rebuilds = 0

\* C36: an append or a pop that performs a rebuild (up or down) is never
\* immediately followed by an append or a pop that performs a rebuild.
C36_RebuildsDoNotThrash ==
    /\ NoRebuildAfter(grow(Ctx(arr[1]), 0))
    /\ NoRebuildAfter(shrink(Ctx(arr[1])))

\* a pop that rebuilds downwards, followed by an append or a pop without one
C36_Witness ==
    /\ shrinkRebuilds(arr[1])
    /\ shrink(Ctx(arr[1])).rebuilds = 1
    /\ shrink(Ctx(arr[1])).c.B_ = arr[1].B_ \div 2
    /\ grow(Ctx(shrink(Ctx(arr[1])).c), 0).rebuilds = 0
    /\ shrink(Ctx(shrink(Ctx(arr[1])).c)).rebuilds = 0

\* an append that rebuilds upwards, followed by an append or a pop without one
AppendRebuildsThenNone ==
    /\ growRebuilds(arr[1])
    /\ grow(Ctx(arr[1]), 0).rebuilds = 1
    /\ grow(Ctx(arr[1]), 0).c.B_ = 2 * arr[1].B_
    /\ shrink(Ctx(grow(Ctx(arr[1]), 0).c)).rebuilds = 0

\* C37: append(at(i)) returns and stores at the end the value at(i) had when
\* the call was made, for every element i of the container.
C37_AppendOfOwnElement ==
    \A i \in 0..(arr[1].N_ - 1) :
        LET g == growOwn(Ctx(arr[1]), i) IN
        /\ g.exc = "none"
        /\ g.c.N_ = arr[1].N_ + 1
        /\ At(g.c, arr[1].N_) = At(arr[1], i)

\* append(at(i)) reads a deleted block only in a call that rebuilds or
\* combines, and stores the value of at(i) otherwise
AppendOfOwnElementOutcomes ==
    \A i \in 0..(arr[1].N_ - 1) :
        LET g == growOwn(Ctx(arr[1]), i) IN
        /\ g.exc \in {"none", "UB"}
        /\ (g.exc = "UB") => (growRebuilds(arr[1]) \/ growCombines(arr[1]))
        /\ growRebuilds(arr[1]) => (g.exc = "UB")
        /\ (g.exc = "none") =>
              /\ g.c.N_ = arr[1].N_ + 1
              /\ At(g.c, arr[1].N_) = At(arr[1], i)
              /\ At(g.c, i) = At(arr[1], i)

\* append(at(0)) at the first combine reads the Level[1] block just deleted
AppendOfFirstElementAtCombine ==
    /\ arr[1].N_ = 2 * INITIAL_B * INITIAL_B
    /\ arr[1].B_ = INITIAL_B
    /\ growCombines(arr[1])
    /\ growOwn(Ctx(arr[1]), 0).exc = "UB"


====
